---------------------------- MODULE Spec2Model ----------------------------
(***************************************************************************)
(* Model of the fetch-and-filter pipeline of src/main.py (CryptoAnalyzer   *)
(* and the two service handlers analyze_cryptos and get_status).           *)
(*                                                                         *)
(* JSON values are tagged tuples: <<"num", n>>, <<"null">>, <<"str", s>>.  *)
(* A provider record is a function from the keys it carries to JSON        *)
(* values, so that dict.get(key, default) and dict[key] keep their Python  *)
(* meaning for an absent key.  Derived floating-point quantities are kept  *)
(* as exact fractions <<numerator, denominator>> with a positive           *)
(* denominator; on the value domain used here the IEEE-754 evaluation of   *)
(* the source expressions is exact, so the comparisons agree.              *)
(***************************************************************************)
EXTENDS Integers, Sequences, FiniteSets, TLC

VARIABLES
    request_count,   \* CryptoAnalyzer.request_count
    elapsed_time,    \* time.time() - self.start_time, saturated at Window
    pc,              \* position of the analyze request being served
    page,            \* loop variable of get_all_cryptos
    all_cryptos,     \* accumulator of get_all_cryptos
    status,          \* status of the last upstream answer of the run
    requested,       \* pages for which a request was issued in this run
    retries,         \* 429 answers received in this run
    depth,           \* nested fetch_data calls made for the url of this page
    outcomes,        \* what each finished page came to: <<"data", body>>
                     \* for a 200 answer, <<"nodata", <<>>>> otherwise
    wait_time,       \* length of the current suspension
    params,          \* FilterParams of the request being served
    crypto_data,     \* list returned by get_all_cryptos / given to the filter
    response,        \* outcome of the last analyze request / filter call
    runs             \* analyze requests received since process start

vars == <<request_count, elapsed_time, pc, page, all_cryptos, status,
          requested, retries, depth, outcomes, wait_time, params, crypto_data,
          response, runs>>

---------------------------------------------------------------------------
(* JSON values *)

JNum(n) == <<"num", n>>
JStr(s) == <<"str", s>>
JNull == <<"null">>

IsNum(v) == v[1] = "num"
IsNull(v) == v[1] = "null"
IsStr(v) == v[1] = "str"

\* dict.get(key, default)
Get(crypto, key, default) ==
    IF key \in DOMAIN crypto THEN crypto[key] ELSE default

\* Python truthiness of a JSON value: None, 0 and "" are falsy
Truthy(v) ==
    CASE IsNull(v) -> FALSE
      [] IsNum(v) -> v[2] # 0
      [] IsStr(v) -> v[2] # ""

---------------------------------------------------------------------------
(* Exact fractions <<n, d>>, d > 0 *)

Abs(n) == IF n < 0 THEN -n ELSE n

\* floor division and remainder with a positive divisor, any dividend
FloorDiv(n, d) == IF n >= 0 THEN n \div d ELSE -((-n + d - 1) \div d)

Frac(n, d) == IF d < 0 THEN <<-n, -d>> ELSE <<n, d>>
FracAbs(q) == <<Abs(q[1]), q[2]>>
\* q >= k and q <= k for an integer k
FracGe(q, k) == q[1] >= k * q[2]
FracLe(q, k) == q[1] <= k * q[2]

\* round(q, 2), in hundredths, ties to even
Round2(q) ==
    LET n == 100 * q[1]
        f == FloorDiv(n, q[2])
        r == n - f * q[2]
    IN  IF 2 * r < q[2] THEN f
        ELSE IF 2 * r > q[2] THEN f + 1
        ELSE IF f % 2 = 0 THEN f ELSE f + 1

---------------------------------------------------------------------------
(* Filter/Scorer: CryptoAnalyzer.filter_cryptocurrencies *)

\* calculate_deviation(current_price, ath_price), both JSON values
calculate_deviation(current_price, ath_price) ==
    IF ath_price = JNum(0) \/ IsNull(current_price) \/ IsNull(ath_price)
    THEN Frac(0, 1)
    ELSE Frac((current_price[2] - ath_price[2]) * 100, ath_price[2])

\* str.upper() on the symbols of the catalogue
Upper(s) ==
    CASE s = "btc" -> "BTC"
      [] s = "eth" -> "ETH"
      [] s = "N/A" -> "N/A"
      [] OTHER -> s

\* PriceGuard with the tests of the all-time-high price left out
PriceGuardPriceOnly(current_price, ath_price) ==
    IF ~Truthy(current_price) THEN "skip"
    ELSE IF ~IsNum(current_price) THEN "raise"
    ELSE IF current_price[2] <= 0 THEN "skip"
    ELSE IF ~IsNum(ath_price) THEN "raise"
    ELSE "go"

\* the skip test of line 124, evaluated left to right with short circuit:
\* "skip" when it is true, "raise" when a comparison of a str with 0 raises
\* TypeError, "go" when it is false
PriceGuard(current_price, ath_price) ==
    IF ~Truthy(current_price) \/ ~Truthy(ath_price) THEN "skip"
    ELSE IF ~IsNum(current_price) THEN "raise"
    ELSE IF current_price[2] <= 0 THEN "skip"
    ELSE IF ~IsNum(ath_price) THEN "raise"
    ELSE IF ath_price[2] <= 0 THEN "skip"
    ELSE "go"

\* the drawdown percentage of lines 128-132
DrawdownPercentage(crypto, current_price, ath_price) ==
    LET ath_change_percentage == Get(crypto, "ath_change_percentage", JNull)
    IN  IF ~IsNull(ath_change_percentage)
        THEN ath_change_percentage
        ELSE <<"frac", calculate_deviation(current_price, ath_price)>>

\* the fraction held by a drawdown value that is a number
DrawdownFrac(d) == IF d[1] = "frac" THEN d[2] ELSE Frac(d[2], 1)

\* conditions_met with a strict lower bound on the drawdown
ConditionsMetStrict(estimated_ath_market_cap, current_market_cap, drawdown_positive, filter_params) ==
    /\ FracGe(estimated_ath_market_cap, filter_params.min_ath_market_cap)
    /\ current_market_cap >= filter_params.min_current_market_cap
    /\ ~FracLe(drawdown_positive, filter_params.min_drawdown)
    /\ FracLe(drawdown_positive, filter_params.max_drawdown)

\* conditions_met with min_drawdown and max_drawdown taken for each other
ConditionsMetSwapped(estimated_ath_market_cap, current_market_cap, drawdown_positive, filter_params) ==
    /\ FracGe(estimated_ath_market_cap, filter_params.min_ath_market_cap)
    /\ current_market_cap >= filter_params.min_current_market_cap
    /\ FracGe(drawdown_positive, filter_params.max_drawdown)
    /\ FracLe(drawdown_positive, filter_params.min_drawdown)

\* conditions_met without the upper bound on the drawdown
ConditionsMetNoUpper(estimated_ath_market_cap, current_market_cap, drawdown_positive, filter_params) ==
    /\ FracGe(estimated_ath_market_cap, filter_params.min_ath_market_cap)
    /\ current_market_cap >= filter_params.min_current_market_cap
    /\ FracGe(drawdown_positive, filter_params.min_drawdown)

\* conditions_met of lines 144-148
ConditionsMet(estimated_ath_market_cap, current_market_cap, drawdown_positive, filter_params) ==
    /\ FracGe(estimated_ath_market_cap, filter_params.min_ath_market_cap)
    /\ current_market_cap >= filter_params.min_current_market_cap
    /\ FracGe(drawdown_positive, filter_params.min_drawdown)
    /\ FracLe(drawdown_positive, filter_params.max_drawdown)

\* crypto_info of lines 151-168 (the fields that are derived or can raise;
\* the other display fields are copied by dict.get and never raise)
CryptoInfo(crypto, current_price, ath_price, current_market_cap, est, dd, ddpos, dev) ==
    [ id |-> Get(crypto, "id", JStr("")),
      symbol |-> Upper(Get(crypto, "symbol", JStr("N/A"))[2]),
      current_price |-> current_price[2],
      ath_price |-> ath_price[2],
      current_market_cap |-> current_market_cap[2],
      estimated_ath_market_cap |-> est,
      drawdown_percent |-> Round2(dd),
      drawdown_positive |-> Round2(ddpos),
      price_deviation |-> Round2(dev) ]

\* one iteration of the loop of lines 114-172: what the record contributes.
\* kind "skip": a continue of line 117 or 125; "error": the except clause of
\* line 171; "reject": conditions_met is false; "accept": appended.
Evaluate(crypto, filter_params) ==
    IF DOMAIN crypto = {} THEN [kind |-> "skip"]
    ELSE
    LET current_price == Get(crypto, "current_price", JNum(0))
        current_market_cap == Get(crypto, "market_cap", JNum(0))
        ath_price == Get(crypto, "ath", JNum(0))
        guard == PriceGuard(current_price, ath_price)
    IN  IF guard = "skip" THEN [kind |-> "skip"]
        ELSE IF guard = "raise" THEN [kind |-> "error"]
        ELSE
        LET d == DrawdownPercentage(crypto, current_price, ath_price)
        IN  \* (ath_price / current_price) * current_market_cap: TypeError
            \* unless the market cap is a number; abs(): TypeError on a str
            \* and ZeroDivisionError on a zero price
            IF ~IsNum(current_market_cap) \/ IsStr(d) \/ current_price[2] = 0
            THEN [kind |-> "error"]
            ELSE
            LET est == Frac(ath_price[2] * current_market_cap[2], current_price[2])
                dd == DrawdownFrac(d)
                ddpos == FracAbs(dd)
                dev == calculate_deviation(current_price, ath_price)
            IN  IF ~ConditionsMet(est, current_market_cap[2], ddpos, filter_params)
                THEN [kind |-> "reject"]
                \* 'N/A'.upper() is fine, None.upper() and 1.upper() raise
                ELSE IF ~IsStr(Get(crypto, "symbol", JStr("N/A")))
                THEN [kind |-> "error"]
                ELSE [kind |-> "accept",
                      info |-> CryptoInfo(crypto, current_price, ath_price,
                                          current_market_cap, est, dd, ddpos, dev)]

\* variant of the loop in which the first record that raises ends the loop
RECURSIVE FilteredUntilError(_, _)
FilteredUntilError(data, filter_params) ==
    IF data = <<>> THEN <<>>
    ELSE LET e == Evaluate(data[1], filter_params)
         IN  IF e.kind = "error" THEN <<>>
             ELSE (IF e.kind = "accept" THEN <<e.info>> ELSE <<>>)
                  \o FilteredUntilError(Tail(data), filter_params)

\* variant of the loop that puts each accepted entry in front of the list
RECURSIVE FilteredNewestFirst(_, _)
FilteredNewestFirst(data, filter_params) ==
    IF data = <<>> THEN <<>>
    ELSE LET e == Evaluate(data[1], filter_params)
         IN  FilteredNewestFirst(Tail(data), filter_params)
             \o (IF e.kind = "accept" THEN <<e.info>> ELSE <<>>)

\* the list `filtered` after the loop of lines 114-172
RECURSIVE Filtered(_, _)
Filtered(data, filter_params) ==
    IF data = <<>> THEN <<>>
    ELSE LET rest == Filtered(SubSeq(data, 1, Len(data) - 1), filter_params)
             e == Evaluate(data[Len(data)], filter_params)
         IN  IF e.kind = "accept" THEN Append(rest, e.info) ELSE rest

\* list[:n] of Python: a negative n counts from the end
Slice(list, n) ==
    IF n >= 0 THEN SubSeq(list, 1, IF n < Len(list) THEN n ELSE Len(list))
    ELSE SubSeq(list, 1, IF Len(list) + n > 0 THEN Len(list) + n ELSE 0)

\* filter_cryptocurrencies(crypto_data, filter_params), line 174 included
filter_cryptocurrencies(data, filter_params) ==
    Slice(Filtered(data, filter_params), filter_params.max_results)

---------------------------------------------------------------------------
(* Program constants *)

Budget == 45        \* request budget of the pacing test
Window == 60        \* length of the pacing window
Margin == 1         \* safety margin added to the pacing suspension
Cooldown == 60      \* suspension after a 429 answer
PageDelay == 1      \* suspension between two pages
NumPages == 5       \* pages 1..5
TimeoutTotal == 30  \* aiohttp.ClientTimeout(total=30)

(* Bounds of the model *)

MaxRuns == 10       \* analyze requests served in one process lifetime
WarmRuns == 9       \* the first WarmRuns of them meet a healthy upstream
MaxRetries == 2     \* 429 answers the upstream gives within one run
MaxLen == 2         \* length of the record lists given to the filter alone

---------------------------------------------------------------------------
(* Provider records of the upstream answers *)

Rec(id, symbol, price, cap, ath) ==
    [id |-> JStr(id), symbol |-> JStr(symbol), current_price |-> JNum(price),
     market_cap |-> JNum(cap), ath |-> JNum(ath)]

RecA == Rec("a", "btc", 10, 1000000, 100)
RecB == Rec("b", "eth", 5, 50000, 100)
RecB2 == Rec("b", "eth", 10, 100000, 100)
RecC == Rec("c", "btc", 10, 30000, 200)
\* a record without the key 'id'
RecNoId == [symbol |-> JStr("eth"), current_price |-> JNum(10),
            market_cap |-> JNum(1000000), ath |-> JNum(100)]

\* a record whose market cap is null
RecBadCap == [Rec("m", "btc", 10, 1000000, 100) EXCEPT !["market_cap"] = JNull]

PlainBody == <<RecA, RecBadCap>>
Bodies == { <<>>, <<RecA, RecB>>, <<RecB2, RecC>>, <<RecNoId>> }

\* FilterParams: the defaults of lines 17-22 and the request of the example
DefaultParams ==
    [min_ath_market_cap |-> 500000, max_drawdown |-> 50, min_drawdown |-> 90,
     min_current_market_cap |-> 20000, max_results |-> 100]
RequestParams ==
    { DefaultParams,
      [DefaultParams EXCEPT !.max_drawdown = 95, !.max_results = 2] }

NoResponse == [kind |-> "none"]
\* fetch_data returns None: falsy in the test of line 93, like an empty list
NoData == <<>>

---------------------------------------------------------------------------
(* Fetcher: CryptoAnalyzer.fetch_data and get_all_cryptos *)

Min(a, b) == IF a < b THEN a ELSE b

\* time.time() - self.start_time after dt more time units, saturated at
\* Window: the code only compares it with Window and subtracts it from Window
Later(e, dt) == Min(e + dt, Window)

\* pacing test that lets the counter pass the budget before it suspends
MustPaceAbove(count, elapsed) == count > Budget /\ elapsed < Window

\* the pacing test of line 50
MustPace(count, elapsed) == count >= Budget /\ elapsed < Window

\* wait_time of line 51
WaitTime(elapsed) == Window - elapsed + Margin

\* the deduplication loop of lines 101-106: TRUE when crypto['id'] raises
\* KeyError for some record
RaisesKeyError(cryptos) == \E i \in 1..Len(cryptos) : "id" \notin DOMAIN cryptos[i]

\* deduplication in which a later record replaces the one kept for its id
RECURSIVE UniqueCryptosKeepLast(_)
UniqueCryptosKeepLast(cryptos) ==
    IF cryptos = <<>> THEN <<>>
    ELSE LET first == cryptos[1]
             back == SubSeq(cryptos, 2, Len(cryptos))
         IN  IF \E i \in 1..Len(back) : back[i]["id"] = first["id"]
             THEN UniqueCryptosKeepLast(back)
             ELSE <<first>> \o UniqueCryptosKeepLast(back)

RECURSIVE UniqueCryptos(_)
UniqueCryptos(cryptos) ==
    IF cryptos = <<>> THEN <<>>
    ELSE LET front == SubSeq(cryptos, 1, Len(cryptos) - 1)
             last == cryptos[Len(cryptos)]
         IN  IF \E i \in 1..Len(front) : front[i]["id"] = last["id"]
             THEN UniqueCryptos(front)
             ELSE Append(UniqueCryptos(front), last)

\* the HTTPException of line 219 for the KeyError of line 104
KeyErrorReply == [kind |-> "http500", status_code |-> 500, detail |-> "'id'"]

\* service that answers with an error when no record was fetched
AnalyzeReplyFailOnEmpty(cryptos, filter_params) ==
    IF RaisesKeyError(cryptos) THEN KeyErrorReply
    ELSE LET cryptocurrencies == UniqueCryptos(cryptos)
         IN  IF cryptocurrencies = <<>>
             THEN [kind |-> "http500", status_code |-> 500, detail |-> "no data"]
             ELSE LET results == filter_cryptocurrencies(cryptocurrencies, filter_params)
                  IN  [kind |-> "ok", success |-> TRUE, data |-> results,
                       count |-> Len(results)]

\* analyze_cryptocurrencies after get_all_cryptos returned (lines 182-191)
\* and the reply of analyze_cryptos (lines 211-219)
AnalyzeReply(cryptos, filter_params) ==
    IF RaisesKeyError(cryptos) THEN KeyErrorReply
    ELSE LET cryptocurrencies == UniqueCryptos(cryptos)
             results == IF cryptocurrencies = <<>> THEN <<>>
                        ELSE filter_cryptocurrencies(cryptocurrencies, filter_params)
         IN  [kind |-> "ok", success |-> TRUE, data |-> results,
              count |-> Len(results)]

---------------------------------------------------------------------------
(* The service: one analyze request at a time on the process-wide analyzer *)

Init ==
    /\ request_count = 0
    /\ elapsed_time = 0
    /\ pc = "idle"
    /\ page = 1
    /\ all_cryptos = <<>>
    /\ status = "none"
    /\ requested = {}
    /\ retries = 0
    /\ depth = 0
    /\ outcomes = <<>>
    /\ wait_time = 0
    /\ params = DefaultParams
    /\ crypto_data = <<>>
    /\ response = NoResponse
    /\ runs = 0

\* entry of fetch_data(session, url) for page p with the limiter at
\* (count, elapsed): lines 49-53 suspend, or line 58 issues the request
FetchEnter(p, count, elapsed, before) ==
    IF MustPace(count, elapsed)
    THEN /\ pc' = "pacing"
         /\ wait_time' = WaitTime(elapsed)
         /\ requested' = before
    ELSE /\ pc' = "get"
         /\ wait_time' = 0
         /\ requested' = before \cup {p}

\* get_all_cryptos that stops paginating at the first page without data
PageDoneStopOnEmpty(data) ==
    LET cryptos == IF data = <<>> THEN all_cryptos ELSE all_cryptos \o data
        last == page >= NumPages \/ data = <<>>
    IN  /\ all_cryptos' = cryptos
        /\ depth' = depth
        /\ wait_time' = IF ~last THEN PageDelay ELSE 0
        /\ IF ~last
           THEN /\ pc' = "page_sleep"
                /\ UNCHANGED <<crypto_data, response>>
           ELSE /\ pc' = "done"
                /\ crypto_data' = IF RaisesKeyError(cryptos) THEN <<>>
                                  ELSE UniqueCryptos(cryptos)
                /\ response' = AnalyzeReply(cryptos, params)

\* get_all_cryptos once fetch_data returned `data` for the current page
\* (lines 93-108), then lines 182-191 and 211-219 after the last page
PageDone(data) ==
    LET cryptos == IF data = <<>> THEN all_cryptos ELSE all_cryptos \o data
    IN  /\ all_cryptos' = cryptos
        /\ depth' = depth
        /\ wait_time' = IF page < NumPages THEN PageDelay ELSE 0
        /\ IF page < NumPages
           THEN /\ pc' = "page_sleep"
                /\ UNCHANGED <<crypto_data, response>>
           ELSE /\ pc' = "done"
                /\ crypto_data' = IF RaisesKeyError(cryptos) THEN <<>>
                                  ELSE UniqueCryptos(cryptos)
                /\ response' = AnalyzeReply(cryptos, params)

\* POST /api/analyze: analyze_cryptos up to the first request of page 1
AnalyzeStart(p) ==
    /\ pc \in {"idle", "done"}
    /\ runs < MaxRuns
    /\ runs' = runs + 1
    /\ params' = p
    /\ page' = 1
    /\ all_cryptos' = <<>>
    /\ status' = "none"
    /\ retries' = 0
    /\ depth' = 0
    /\ outcomes' = <<>>
    /\ crypto_data' = <<>>
    /\ response' = NoResponse
    /\ FetchEnter(1, request_count, elapsed_time, {})
    /\ UNCHANGED <<request_count, elapsed_time>>

\* the first WarmRuns requests meet a healthy upstream: every page answers
\* 200 with PlainBody at once; later requests meet every answer
Healthy == runs <= WarmRuns

\* lines 53-58: the pacing suspension ends, the limiter is reset and the
\* request is issued
PaceWake ==
    /\ pc = "pacing"
    /\ request_count' = 0
    /\ elapsed_time' = 0
    /\ pc' = "get"
    /\ wait_time' = 0
    /\ requested' = requested \cup {page}
    /\ UNCHANGED <<page, all_cryptos, status, retries, depth, outcomes, params,
                   crypto_data, response, runs>>

\* line 66 without its `return`: a call that waited for a nested call
\* returns None
ReturnDropped(data, pending) == IF pending > 0 THEN NoData ELSE data

\* line 66: each of the `pending` calls of fetch_data that wait for their
\* nested call return its value
ReturnThrough(data, pending) == data

\* lines 59-62: the upstream answers 200 and the body parses to `body`
Answer200(body) ==
    /\ pc = "get"
    /\ request_count' = request_count + 1
    /\ status' = "200"
    /\ outcomes' = Append(outcomes, <<"data", body>>)
    /\ PageDone(ReturnThrough(body, depth))
    /\ UNCHANGED <<elapsed_time, page, requested, retries, params, runs>>

\* lines 59, 63-65: the upstream answers 429
Answer429 ==
    /\ pc = "get"
    /\ ~Healthy
    /\ retries < MaxRetries
    /\ request_count' = request_count + 1
    /\ status' = "429"
    /\ retries' = retries + 1
    /\ depth' = depth + 1
    /\ pc' = "cooldown"
    /\ wait_time' = Cooldown
    /\ UNCHANGED <<elapsed_time, page, all_cryptos, requested, outcomes, params,
                   crypto_data, response, runs>>

\* cooldown that is started again each time it ends
CooldownNeverEnds ==
    /\ pc = "cooldown"
    /\ UNCHANGED vars

\* retry that asks for the next page once the cooldown ends
CooldownWakeNextPage ==
    /\ pc = "cooldown"
    /\ elapsed_time' = Later(elapsed_time, Cooldown)
    /\ page' = IF page < NumPages THEN page + 1 ELSE page
    /\ FetchEnter(page', request_count, Later(elapsed_time, Cooldown), requested)
    /\ UNCHANGED <<request_count, all_cryptos, status, retries, depth,
                   outcomes, params, crypto_data, response, runs>>

\* lines 65-66: the cooldown ends and fetch_data is entered again, same url
CooldownWake ==
    /\ pc = "cooldown"
    /\ elapsed_time' = Later(elapsed_time, Cooldown)
    /\ FetchEnter(page, request_count, Later(elapsed_time, Cooldown), requested)
    /\ UNCHANGED <<request_count, page, all_cryptos, status, retries, depth,
                   outcomes, params, crypto_data, response, runs>>

\* lines 59, 67-69: any other status
AnswerOther ==
    /\ pc = "get"
    /\ ~Healthy
    /\ request_count' = request_count + 1
    /\ status' = "500"
    /\ outcomes' = Append(outcomes, <<"nodata", NoData>>)
    /\ PageDone(ReturnThrough(NoData, depth))
    /\ UNCHANGED <<elapsed_time, page, requested, retries, params, runs>>

\* lines 70-72: asyncio.TimeoutError after TimeoutTotal, before the answer
\* (not counted) or while the body is read (counted)
RequestTimeout(counted) ==
    /\ pc = "get"
    /\ ~Healthy
    /\ request_count' = IF counted THEN request_count + 1 ELSE request_count
    /\ elapsed_time' = Later(elapsed_time, TimeoutTotal)
    /\ status' = "timeout"
    /\ outcomes' = Append(outcomes, <<"nodata", NoData>>)
    /\ PageDone(ReturnThrough(NoData, depth))
    /\ UNCHANGED <<page, requested, retries, params, runs>>

\* lines 73-75: any other exception, raised by session.get (not counted) or
\* by response.json() (counted)
RequestError(counted) ==
    /\ pc = "get"
    /\ ~Healthy
    /\ request_count' = IF counted THEN request_count + 1 ELSE request_count
    /\ status' = "error"
    /\ outcomes' = Append(outcomes, <<"nodata", NoData>>)
    /\ PageDone(ReturnThrough(NoData, depth))
    /\ UNCHANGED <<elapsed_time, page, requested, retries, params, runs>>

\* lines 97-98 and the next iteration of the loop of line 88
PageSleepWake ==
    /\ pc = "page_sleep"
    /\ page' = page + 1
    /\ elapsed_time' = Later(elapsed_time, PageDelay)
    /\ FetchEnter(page + 1, request_count, Later(elapsed_time, PageDelay), requested)
    /\ depth' = 0
    /\ UNCHANGED <<request_count, all_cryptos, status, retries, outcomes,
                   params, crypto_data, response, runs>>

\* GET /api/status: the reply of get_status; the handler changes nothing
get_status == [status |-> "online", requests_count |-> request_count]

GetStatus ==
    /\ get_status.status = "online"
    /\ UNCHANGED vars

\* no request is being served and a window length passes
Idle ==
    /\ pc \in {"idle", "done"}
    /\ elapsed_time < Window
    /\ elapsed_time' = Window
    /\ UNCHANGED <<request_count, pc, page, all_cryptos, status, requested,
                   retries, depth, outcomes, wait_time, params, crypto_data,
                   response, runs>>

Next ==
    \/ \E p \in RequestParams : AnalyzeStart(p)
    \/ PaceWake
    \/ \E body \in (IF Healthy THEN {PlainBody} ELSE Bodies) : Answer200(body)
    \/ Answer429
    \/ CooldownWake
    \/ AnswerOther
    \/ \E counted \in BOOLEAN : RequestTimeout(counted)
    \/ \E counted \in BOOLEAN : RequestError(counted)
    \/ PageSleepWake
    \/ GetStatus
    \/ Idle

Spec == Init /\ [][Next]_vars

---------------------------------------------------------------------------
(* The service under fair scheduling, for the termination of a fetch: what
   the pages deliver has no part in it, so that every 200 answer carries
   PlainBody and every request the default criteria *)

\* an outcome of the request in flight other than 429 (lines 61-62, 67-75)
FinalOutcome ==
    \/ Answer200(PlainBody)
    \/ AnswerOther
    \/ \E counted \in BOOLEAN : RequestTimeout(counted)
    \/ \E counted \in BOOLEAN : RequestError(counted)

NextLive ==
    \/ AnalyzeStart(DefaultParams)
    \/ PaceWake
    \/ FinalOutcome
    \/ Answer429
    \/ CooldownWake
    \/ PageSleepWake
    \/ GetStatus
    \/ Idle

\* a page request is in flight
InFlight == pc = "get"

\* the event loop resumes a coroutine whose asyncio.sleep is over (lines
\* 53, 65, 98), and every request in flight ends, session.get having a
\* total timeout (line 58); a page is answered 429 at most MaxRetries times
Fairness ==
    /\ WF_vars(PaceWake)
    /\ WF_vars(CooldownWake)
    /\ WF_vars(PageSleepWake)
    /\ []<>(~InFlight)

LiveSpec == Init /\ [][NextLive]_vars /\ Fairness

---------------------------------------------------------------------------
(* Two analyze requests served concurrently by the one analyzer of line 194.
   The coroutines interleave at their awaits; request_count and start_time
   are shared, everything else is local to a call.  Under ConcSpec each
   variable of a call (pc, page, all_cryptos, ...) is a function of the run,
   and how long a suspension lasts is left open: a run is resumed after any
   amount of time, time passing by ConcTick.  Of the history of a run only
   what its pages delivered is kept, in outcomes. *)

RunIds == {1, 2}
ConcRetries == 1

\* the limiter at process start, and after WarmRuns requests served in a
\* row with every page answered at once (a state Spec reaches)
ConcLimiter ==
    { <<0, 0>>, <<WarmRuns * NumPages, WarmRuns * (NumPages - 1) * PageDelay>> }

\* what a page delivers to a run when it answers 200 with data
ConcBody(r) == IF r = 1 THEN <<RecA, RecB>> ELSE <<RecB2, RecC>>

\* the criteria of a run
ConcParams(r) ==
    IF r = 1 THEN [DefaultParams EXCEPT !.max_drawdown = 95, !.max_results = 2]
    ELSE [DefaultParams EXCEPT !.max_drawdown = 95, !.max_results = 1]

\* all_cryptos kept on the analyzer, one list for every call
WorkingSetShared(r) == 1

\* all_cryptos is a local of get_all_cryptos (line 85): one list per call
WorkingSet(r) == r

ConcInit ==
    /\ \E l \in ConcLimiter : request_count = l[1] /\ elapsed_time = l[2]
    /\ pc = [r \in RunIds |-> "idle"]
    /\ page = [r \in RunIds |-> 1]
    /\ all_cryptos = [r \in RunIds |-> <<>>]
    /\ status = [r \in RunIds |-> "none"]
    /\ requested = [r \in RunIds |-> {}]
    /\ retries = [r \in RunIds |-> 0]
    /\ depth = [r \in RunIds |-> 0]
    /\ outcomes = [r \in RunIds |-> <<>>]
    /\ wait_time = [r \in RunIds |-> 0]
    /\ params = [r \in RunIds |-> DefaultParams]
    /\ crypto_data = [r \in RunIds |-> <<>>]
    /\ response = [r \in RunIds |-> NoResponse]
    /\ runs = 0

\* entry of fetch_data in run r for page p (lines 49-58)
ConcFetchEnter(r, p, before) ==
    IF MustPace(request_count, elapsed_time)
    THEN /\ pc' = [pc EXCEPT ![r] = "pacing"]
         /\ wait_time' = [wait_time EXCEPT ![r] = WaitTime(elapsed_time)]
         /\ requested' = [requested EXCEPT ![r] = before]
    ELSE /\ pc' = [pc EXCEPT ![r] = "get"]
         /\ wait_time' = [wait_time EXCEPT ![r] = 0]
         /\ requested' = [requested EXCEPT ![r] = before \cup {p}]

\* get_all_cryptos of run r once fetch_data returned `data` (lines 93-108),
\* then lines 182-191 and 211-219 after the last page
ConcPageDone(r, data) ==
    LET cryptos == IF data = <<>> THEN all_cryptos[WorkingSet(r)]
                   ELSE all_cryptos[WorkingSet(r)] \o data
    IN  /\ all_cryptos' = [all_cryptos EXCEPT ![WorkingSet(r)] = cryptos]
        /\ wait_time' = [wait_time EXCEPT
                            ![r] = IF page[r] < NumPages THEN PageDelay ELSE 0]
        /\ IF page[r] < NumPages
           THEN /\ pc' = [pc EXCEPT ![r] = "page_sleep"]
                /\ UNCHANGED <<crypto_data, response>>
           ELSE /\ pc' = [pc EXCEPT ![r] = "done"]
                /\ crypto_data' = [crypto_data EXCEPT
                                      ![r] = IF RaisesKeyError(cryptos) THEN <<>>
                                             ELSE UniqueCryptos(cryptos)]
                /\ response' = [response EXCEPT
                                   ![r] = AnalyzeReply(cryptos, params[r])]

\* POST /api/analyze of run r, up to the first request of page 1
ConcStart(r) ==
    /\ pc[r] = "idle"
    /\ runs' = runs + 1
    /\ params' = [params EXCEPT ![r] = ConcParams(r)]
    /\ all_cryptos' = [all_cryptos EXCEPT ![WorkingSet(r)] = <<>>]
    /\ ConcFetchEnter(r, 1, {})
    /\ UNCHANGED <<request_count, elapsed_time, page, status, retries, depth,
                   outcomes, crypto_data, response>>

\* lines 53-58 in run r: the suspension ends, the limiter is reset
ConcPaceWake(r) ==
    /\ pc[r] = "pacing"
    /\ request_count' = 0
    /\ elapsed_time' = 0
    /\ pc' = [pc EXCEPT ![r] = "get"]
    /\ wait_time' = [wait_time EXCEPT ![r] = 0]
    /\ requested' = [requested EXCEPT ![r] = @ \cup {page[r]}]
    /\ UNCHANGED <<page, all_cryptos, status, retries, depth, outcomes, params,
                   crypto_data, response, runs>>

\* lines 59-62 in run r
ConcAnswer200(r) ==
    /\ pc[r] = "get"
    /\ request_count' = request_count + 1
    /\ outcomes' = [outcomes EXCEPT ![r] = Append(@, <<"data", ConcBody(r)>>)]
    /\ ConcPageDone(r, ReturnThrough(ConcBody(r), depth[r]))
    /\ UNCHANGED <<elapsed_time, page, status, requested, retries, depth,
                   params, runs>>

\* lines 59, 63-65 in run r
ConcAnswer429(r) ==
    /\ pc[r] = "get"
    /\ retries[r] < ConcRetries
    /\ request_count' = request_count + 1
    /\ retries' = [retries EXCEPT ![r] = @ + 1]
    /\ depth' = [depth EXCEPT ![r] = @ + 1]
    /\ pc' = [pc EXCEPT ![r] = "cooldown"]
    /\ wait_time' = [wait_time EXCEPT ![r] = Cooldown]
    /\ UNCHANGED <<elapsed_time, page, all_cryptos, status, requested, outcomes,
                   params, crypto_data, response, runs>>

\* lines 65-66 in run r
ConcCooldownWake(r) ==
    /\ pc[r] = "cooldown"
    /\ ConcFetchEnter(r, page[r], requested[r])
    /\ UNCHANGED <<request_count, elapsed_time, page, all_cryptos, status,
                   retries, depth, outcomes, params, crypto_data, response, runs>>

\* lines 59, 67-69 in run r; a timeout or an error (lines 70-75) ends the
\* call with None in the same way
ConcAnswerOther(r) ==
    /\ pc[r] = "get"
    /\ request_count' = request_count + 1
    /\ ConcPageDone(r, ReturnThrough(NoData, depth[r]))
    /\ UNCHANGED <<elapsed_time, page, status, requested, retries, depth,
                   outcomes, params, runs>>

\* lines 97-98 in run r and the next iteration of the loop of line 88
ConcPageSleepWake(r) ==
    /\ pc[r] = "page_sleep"
    /\ page' = [page EXCEPT ![r] = @ + 1]
    /\ depth' = [depth EXCEPT ![r] = 0]
    /\ ConcFetchEnter(r, page[r] + 1, requested[r])
    /\ UNCHANGED <<request_count, elapsed_time, all_cryptos, status, retries,
                   outcomes, params, crypto_data, response, runs>>

\* time passes until the window that began at start_time is over
ConcTick ==
    /\ elapsed_time < Window
    /\ elapsed_time' = Window
    /\ UNCHANGED <<request_count, pc, page, all_cryptos, status, requested,
                   retries, depth, outcomes, wait_time, params, crypto_data,
                   response, runs>>

NextConc ==
    \/ \E r \in RunIds : ConcStart(r)
    \/ \E r \in RunIds : ConcPaceWake(r)
    \/ \E r \in RunIds : ConcAnswer200(r)
    \/ \E r \in RunIds : ConcAnswer429(r)
    \/ \E r \in RunIds : ConcCooldownWake(r)
    \/ \E r \in RunIds : ConcAnswerOther(r)
    \/ \E r \in RunIds : ConcPageSleepWake(r)
    \/ ConcTick

ConcSpec == ConcInit /\ [][NextConc]_vars

---------------------------------------------------------------------------
(* The filter alone: filter_cryptocurrencies on bounded inputs *)

\* provider-supplied change from peak added to a record
WithChange(crypto, pct) ==
    [k \in DOMAIN crypto \cup {"ath_change_percentage"} |->
        IF k = "ath_change_percentage" THEN pct ELSE crypto[k]]

\* a record with one key absent
Without(crypto, key) == [k \in DOMAIN crypto \ {key} |-> crypto[k]]

\* RecGood passes every test of the example criteria; each of the others is
\* RecGood with its own id and one field changed or absent
RecP == WithChange(Rec("p", "btc", 10, 1000000, 100), JNum(-50))
RecUp == WithChange(Rec("u", "btc", 10, 1000000, 100), JNum(90))
RecGood == WithChange(Rec("g", "btc", 10, 1000000, 100), JNum(-90))
Changed(id, key, v) == [RecGood EXCEPT !["id"] = JStr(id), ![key] = v]
Lacking(id, key) == Without([RecGood EXCEPT !["id"] = JStr(id)], key)
RecZeroPrice == Changed("zp", "current_price", JNum(0))
RecNegPrice == Changed("np", "current_price", JNum(-5))
RecNullPrice == Changed("lp", "current_price", JNull)
RecNoPrice == Lacking("xp", "current_price")
RecZeroAth == Changed("za", "ath", JNum(0))
RecNegAth == Changed("na", "ath", JNum(-100))
RecNoAth == Lacking("xa", "ath")
RecNullCap == Changed("lc", "market_cap", JNull)
RecNoCap == Lacking("xc", "market_cap")
RecStrPrice == Changed("sp", "current_price", JStr("n/a"))
RecNullSymbol == Changed("ls", "symbol", JNull)
RecEmpty == <<>>

WellFormed == { RecA, RecB, RecC, RecP, RecUp, RecGood }
NonPositive == { RecZeroPrice, RecNegPrice, RecNullPrice, RecNoPrice,
                 RecZeroAth, RecNegAth, RecNoAth }
Irregular == { RecNullCap, RecNoCap, RecStrPrice, RecNullSymbol, RecEmpty }
Catalogue == WellFormed \cup NonPositive \cup Irregular

\* the record lists of length at most n over the catalogue
RECURSIVE Lists(_)
Lists(n) ==
    IF n = 0 THEN { <<>> }
    ELSE LET shorter == Lists(n - 1)
         IN  shorter \cup { Append(l, r) : l \in { x \in shorter : Len(x) = n - 1 },
                                           r \in Catalogue }

Drawdowns == {50, 90, 95}
Thresholds == { <<500000, 20000>>, <<0, 0>>, <<5000000, 40000>> }
Limits == {-1, 0, 1, 2}

Criteria ==
    { [min_ath_market_cap |-> t[1], min_current_market_cap |-> t[2],
       min_drawdown |-> lo, max_drawdown |-> hi, max_results |-> n] :
      t \in Thresholds, lo \in Drawdowns, hi \in Drawdowns, n \in Limits }

InitFilter ==
    /\ request_count = 0
    /\ elapsed_time = 0
    /\ pc = "filter"
    /\ page = 1
    /\ all_cryptos = <<>>
    /\ status = "none"
    /\ requested = {}
    /\ retries = 0
    /\ depth = 0
    /\ outcomes = <<>>
    /\ wait_time = 0
    /\ params \in Criteria
    /\ crypto_data \in Lists(MaxLen)
    /\ response = NoResponse
    /\ runs = 0

\* the call filter_cryptocurrencies(crypto_data, filter_params) of line 188
FilterCall ==
    /\ pc = "filter"
    /\ pc' = "filtered"
    /\ response' = [kind |-> "filtered",
                    data |-> filter_cryptocurrencies(crypto_data, params)]
    /\ UNCHANGED <<request_count, elapsed_time, page, all_cryptos, status,
                   requested, retries, depth, outcomes, wait_time, params,
                   crypto_data, runs>>

NextFilter == FilterCall

FilterSpec == InitFilter /\ [][NextFilter]_vars

---------------------------------------------------------------------------
(* Properties of the filter, checked under FilterSpec *)

\* the value of dict.get('id', '') of a record
IdOf(crypto) == Get(crypto, "id", JStr(""))

RECURSIVE Ids(_)
Ids(list) ==
    IF list = <<>> THEN <<>>
    ELSE Append(Ids(SubSeq(list, 1, Len(list) - 1)), IdOf(list[Len(list)]))

\* C1: for every record list and every FilterParams (any integer
\* max_results) the list returned by filter_cryptocurrencies has length
\* <= max_results, and it is empty when max_results = 0.
C1_LengthAtMostMaxResults ==
    pc = "filtered" =>
        /\ Len(response.data) <= params.max_results
        /\ (params.max_results = 0 => response.data = <<>>)

\* a price field that is absent, null, zero or negative
NonPositiveField(crypto, key) ==
    \/ key \notin DOMAIN crypto
    \/ IsNull(crypto[key])
    \/ IsNum(crypto[key]) /\ crypto[key][2] <= 0

NonPositiveRecord(crypto) ==
    NonPositiveField(crypto, "current_price") \/ NonPositiveField(crypto, "ath")

\* C7: no record whose current price or all-time-high price is non-positive
\* (zero, negative, absent or null) appears in the output of
\* filter_cryptocurrencies, whatever its other fields and the criteria are.
C7_NonPositiveExcluded ==
    pc = "filtered" =>
        \A i \in 1..Len(crypto_data) :
            NonPositiveRecord(crypto_data[i]) =>
                \A j \in 1..Len(response.data) :
                    response.data[j].id # IdOf(crypto_data[i])

\* a record with a zero all-time-high price that passes every other test
\* was given beside an accepted record, and only the latter is returned
C7_Witness ==
    /\ pc = "filtered"
    /\ crypto_data = <<RecZeroAth, RecGood>>
    /\ params.min_ath_market_cap = 0
    /\ params.min_drawdown = 90 /\ params.max_drawdown = 90
    /\ Ids(response.data) = <<JStr("g")>>

\* the acceptance test of claim C8 on a record whose prices are positive
\* numbers, in integer arithmetic: d is the provider's percentage when the
\* record carries one, (current_price - ath) / ath * 100 otherwise
C8Accepts(crypto, criteria) ==
    LET price == crypto["current_price"][2]
        peak == crypto["ath"][2]
        cap == crypto["market_cap"][2]
        supplied == "ath_change_percentage" \in DOMAIN crypto
        magnitude == IF supplied THEN Abs(crypto["ath_change_percentage"][2])
                     ELSE Abs((price - peak) * 100)
        unit == IF supplied THEN 1 ELSE peak
    IN  /\ peak * cap >= criteria.min_ath_market_cap * price
        /\ cap >= criteria.min_current_market_cap
        /\ criteria.min_drawdown * unit <= magnitude
        /\ magnitude <= criteria.max_drawdown * unit

\* C8: before truncation a well-formed record with positive prices is
\* accepted iff (ath / price) * cap >= min_ath_market_cap, cap >=
\* min_current_market_cap and min_drawdown <= |d| <= max_drawdown.
C8_AcceptedIffThreeTests ==
    ( /\ pc = "filtered"
      /\ \A i \in 1..Len(crypto_data) : crypto_data[i] \in WellFormed
      /\ params.max_results >= Len(crypto_data) )
    => Ids(response.data) =
       Ids(SelectSeq(crypto_data, LAMBDA r : C8Accepts(r, params)))

\* the example of the claim: price 10, peak 100, cap 1,000,000, no provider
\* percentage, criteria (500000, 90, 90, 20000): accepted with drawdown
\* -90.00 and estimated peak cap 10,000,000
C8_Witness ==
    /\ pc = "filtered"
    /\ crypto_data = <<RecA>>
    /\ params.min_ath_market_cap = 500000
    /\ params.min_current_market_cap = 20000
    /\ params.min_drawdown = 90 /\ params.max_drawdown = 90
    /\ Len(response.data) = 1
    /\ response.data[1].id = JStr("a")
    /\ response.data[1].drawdown_percent = -9000
    /\ response.data[1].estimated_ath_market_cap = <<100000000, 10>>

\* the criteria with the drawdown range replaced
WithRange(criteria, lo, hi) ==
    [criteria EXCEPT !.min_drawdown = lo, !.max_drawdown = hi]

\* C9: for a fixed record list and otherwise fixed criteria, raising
\* min_drawdown or lowering max_drawdown never increases the number of
\* entries returned (truncation included).
C9_TighterRangeNeverMore ==
    pc = "filtered" =>
        \A lo \in Drawdowns, hi \in Drawdowns :
            (lo >= params.min_drawdown /\ hi <= params.max_drawdown) =>
                Len(filter_cryptocurrencies(crypto_data, WithRange(params, lo, hi)))
                    <= Len(response.data)

\* two records are returned for the range 50..95 and only one of them for
\* the tighter range 95..95
C9_Witness ==
    /\ pc = "filtered"
    /\ crypto_data = <<RecA, RecC>>
    /\ params.min_drawdown = 50 /\ params.max_drawdown = 95
    /\ Len(response.data) = 2
    /\ Len(filter_cryptocurrencies(crypto_data, WithRange(params, 95, 95))) = 1

\* C10: whenever min_drawdown > max_drawdown (as in the FilterParams
\* defaults 90 and 50) filter_cryptocurrencies returns an empty list for
\* every record list; the range is not validated and nothing is raised.
C10_InvertedRangeEmpty ==
    (pc = "filtered" /\ params.min_drawdown > params.max_drawdown)
        => response.data = <<>>

\* the default range 90 > 50 on a list whose records pass every other test
C10_Witness ==
    /\ pc = "filtered"
    /\ params.min_drawdown = DefaultParams.min_drawdown
    /\ params.max_drawdown = DefaultParams.max_drawdown
    /\ params.min_ath_market_cap = DefaultParams.min_ath_market_cap
    /\ params.max_results > 0
    /\ crypto_data = <<RecA, RecGood>>
    /\ response.data = <<>>

\* a record with a field of an unexpected type: a market cap that is not a
\* number, a price that is a string, a symbol that is not a string
Malformed(crypto) ==
    \/ "market_cap" \in DOMAIN crypto /\ ~IsNum(crypto["market_cap"])
    \/ "current_price" \in DOMAIN crypto /\ IsStr(crypto["current_price"])
    \/ "symbol" \in DOMAIN crypto /\ ~IsStr(crypto["symbol"])

\* the list without its i-th element
Remove(list, i) == SubSeq(list, 1, i - 1) \o SubSeq(list, i + 1, Len(list))

CapMissing(crypto) ==
    /\ "current_price" \in DOMAIN crypto /\ IsNum(crypto["current_price"])
    /\ crypto["current_price"][2] > 0
    /\ "ath" \in DOMAIN crypto /\ IsNum(crypto["ath"])
    /\ crypto["ath"][2] > 0
    /\ ("market_cap" \in DOMAIN crypto => IsNull(crypto["market_cap"]))
    /\ "symbol" \in DOMAIN crypto /\ IsStr(crypto["symbol"])
    /\ "ath_change_percentage" \in DOMAIN crypto
          => IsNum(crypto["ath_change_percentage"])

\* the acceptance test of claim C16: market cap 0 and estimated peak cap 0
C16Accepts(crypto, criteria) ==
    LET price == crypto["current_price"][2]
        peak == crypto["ath"][2]
        supplied == "ath_change_percentage" \in DOMAIN crypto
        magnitude == IF supplied THEN Abs(crypto["ath_change_percentage"][2])
                     ELSE Abs((price - peak) * 100)
        unit == IF supplied THEN 1 ELSE peak
    IN  /\ criteria.min_ath_market_cap <= 0
        /\ criteria.min_current_market_cap <= 0
        /\ criteria.min_drawdown * unit <= magnitude
        /\ magnitude <= criteria.max_drawdown * unit

\* C16: a record with positive prices whose market cap is absent or null is
\* evaluated with market cap 0 and estimated peak cap 0: before truncation
\* it is accepted exactly when min_ath_market_cap <= 0,
\* min_current_market_cap <= 0 and the drawdown range test holds, the same
\* for an absent and for a null market cap.
C16_AbsentOrNullCapIsZero ==
    (pc = "filtered" /\ params.max_results >= Len(crypto_data)) =>
        \A i \in 1..Len(crypto_data) :
            CapMissing(crypto_data[i]) =>
                ( (\E j \in 1..Len(response.data) :
                      response.data[j].id = IdOf(crypto_data[i]))
                  <=> C16Accepts(crypto_data[i], params) )

\* the first n elements of a list, n >= 0
FirstN(list, n) == SubSeq(list, 1, IF n < Len(list) THEN n ELSE Len(list))

\* the records of a list that pass the derivation and every test
AcceptedOf(list, criteria) ==
    SelectSeq(list, LAMBDA r : Evaluate(r, criteria).kind = "accept")

\* C17: for max_results >= 0 the output of filter_cryptocurrencies is
\* exactly the entries of the first max_results accepted records of the
\* input, in input order, each input record giving at most one entry.
C17_InputOrderThenTruncate ==
    (pc = "filtered" /\ params.max_results >= 0) =>
        LET first == FirstN(AcceptedOf(crypto_data, params), params.max_results)
        IN  /\ Len(response.data) = Len(first)
            /\ \A j \in 1..Len(first) :
                   response.data[j] = Evaluate(first[j], params).info

\* two records are accepted, the later one with the deeper drawdown, and
\* with max_results = 1 the earlier one is the one returned
C17_Witness ==
    /\ pc = "filtered"
    /\ crypto_data = <<RecA, RecC>>
    /\ params.min_ath_market_cap = 0
    /\ params.min_drawdown = 50 /\ params.max_drawdown = 95
    /\ params.max_results = 1
    /\ Ids(response.data) = <<JStr("a")>>

---------------------------------------------------------------------------
(* Properties of the fetcher and of the service, checked under Spec *)

\* the records the upstream delivered, in page order
RECURSIVE Delivered(_)
Delivered(pages) ==
    IF pages = <<>> THEN <<>>
    ELSE Delivered(SubSeq(pages, 1, Len(pages) - 1)) \o pages[Len(pages)][2]

\* the place of the first record of `cryptos` with identifier `id`
FirstIndex(cryptos, id) ==
    CHOOSE i \in 1..Len(cryptos) :
        /\ cryptos[i]["id"] = id
        /\ \A j \in 1..(i - 1) : cryptos[j]["id"] # id

Returned == pc = "done" /\ response.kind = "ok"

\* C2: the list returned by get_all_cryptos holds each identifier at most
\* once; for every identifier some page delivered exactly one record
\* survives, the first one met in page order, and the survivors are in
\* order of first occurrence.
C2_FirstOccurrenceWins ==
    Returned =>
        LET met == Delivered(outcomes)
            n == Len(crypto_data)
        IN  /\ \A i, j \in 1..n : i # j => crypto_data[i]["id"] # crypto_data[j]["id"]
            /\ \A k \in 1..Len(met) :
                   \E i \in 1..n : crypto_data[i]["id"] = met[k]["id"]
            /\ \A i \in 1..n :
                   crypto_data[i] = met[FirstIndex(met, crypto_data[i]["id"])]
            /\ \A i, j \in 1..n :
                   i < j => FirstIndex(met, crypto_data[i]["id"])
                              < FirstIndex(met, crypto_data[j]["id"])

\* pages 1 and 2 delivered [a, b] and [b, c], the other pages nothing:
\* [a, b, c] is returned, with the b of page 1
C2_Witness ==
    /\ Returned
    /\ outcomes[1] = <<"data", <<RecA, RecB>>>>
    /\ outcomes[2] = <<"data", <<RecB2, RecC>>>>
    /\ Delivered(outcomes) = <<RecA, RecB, RecB2, RecC>>
    /\ crypto_data = <<RecA, RecB, RecC>>

HasId(crypto) == "id" \in DOMAIN crypto

\* C3: when a delivered page holds a record without identifier,
\* get_all_cryptos still completes and returns the deduplicated other
\* records, and the analyze request has no error outcome.
C3_IdlessRecordLeftOut ==
    (pc = "done" /\ \E k \in 1..Len(all_cryptos) : ~HasId(all_cryptos[k]))
        => /\ response.kind = "ok"
           /\ crypto_data = UniqueCryptos(SelectSeq(all_cryptos, HasId))

\* C4: the requests_count reported by the status query never decreases
\* within one process lifetime.
C4_RequestsCountNeverDecreases ==
    [][get_status.requests_count' >= get_status.requests_count]_vars

\* C5: a page that answers 429 and then 200 is retried on the same url
\* after the cooldown, no other page being requested in between, and the
\* list returned by get_all_cryptos is the one obtained from the bodies the
\* pages finally delivered, as if no page had been throttled.
C5_RetryTransparent ==
    /\ [](pc = "done" =>
            /\ all_cryptos = Delivered(outcomes)
            /\ (response.kind = "ok" =>
                    crypto_data = UniqueCryptos(Delivered(outcomes))))
    /\ [][(pc = "cooldown" \/ pc' = "cooldown") =>
            /\ page' = page
            /\ all_cryptos' = all_cryptos
            /\ outcomes' = outcomes
            /\ requested' \subseteq requested \cup {page}
            /\ pc' \in {"cooldown", "get", "pacing"}]_vars

\* page 5 answered 429, then 200 with [b, c] after the cooldown, and the
\* request returned the record c of that body
C5_Witness ==
    /\ Returned
    /\ depth > 0
    /\ status = "200"
    /\ outcomes[NumPages] = <<"data", <<RecB2, RecC>>>>
    /\ \E i \in 1..Len(crypto_data) : crypto_data[i] = RecC

Failures == {"500", "timeout", "error"}

\* C6: a timeout, another transport failure or a status other than 200 and
\* 429 on page p makes p contribute no record and is never surfaced: every
\* later page is still requested and get_all_cryptos returns the
\* deduplicated records of the pages that delivered data.
C6_FailedPageSkipped ==
    /\ [](pc = "done" =>
            /\ requested = 1..NumPages
            /\ Len(outcomes) = NumPages
            /\ (response.kind # "ok" => \E k \in 1..Len(all_cryptos) : ~HasId(all_cryptos[k]))
            /\ (response.kind = "ok" =>
                    crypto_data = UniqueCryptos(Delivered(outcomes))))
    /\ [][(pc = "get" /\ pc' # "get" /\ status' \in Failures) =>
            /\ all_cryptos' = all_cryptos
            /\ outcomes' = Append(outcomes, <<"nodata", <<>>>>)
            /\ pc' = IF page < NumPages THEN "page_sleep" ELSE "done"]_vars

\* page 2 failed, page 3 delivered [a, b] all the same, and the request
\* returned these records
C6_Witness ==
    /\ Returned
    /\ outcomes[1] = <<"data", <<>>>>
    /\ outcomes[2][1] = "nodata"
    /\ outcomes[3] = <<"data", <<RecA, RecB>>>>
    /\ crypto_data = <<RecA, RecB>>

\* C13: an analyze request ends in one of two shapes: success = true with
\* the entry list and count = its length, or one failure for the whole
\* request (status 500 with a message); skipped pages, throttling, skipped
\* records and an empty fetch always give the success shape, with an empty
\* list when nothing was fetched.
C13_TwoOutcomeShapes ==
    pc = "done" =>
        LET met == Delivered(outcomes)
        IN  /\ response.kind \in {"ok", "http500"}
            /\ response.kind = "ok" =>
                   /\ DOMAIN response = {"kind", "success", "data", "count"}
                   /\ response.success = TRUE
                   /\ response.count = Len(response.data)
            /\ response.kind = "http500" =>
                   /\ DOMAIN response = {"kind", "status_code", "detail"}
                   /\ response.status_code = 500
            /\ (\A k \in 1..Len(met) : HasId(met[k])) => response.kind = "ok"
            /\ met = <<>> => (response.kind = "ok" /\ response.data = <<>>)

\* a request was throttled, every page came back without data, and the
\* reply is the success shape with an empty list and count 0
C13_Witness ==
    /\ pc = "done"
    /\ retries >= 1
    /\ \E k \in 1..Len(outcomes) : outcomes[k][1] = "nodata"
    /\ Delivered(outcomes) = <<>>
    /\ response = [kind |-> "ok", success |-> TRUE, data |-> <<>>, count |-> 0]

\* C14: fetch_data suspends before its request exactly when request_count
\* >= 45 and less than 60 time units passed since start_time; it then waits
\* 60 - elapsed + 1, sets request_count to 0 and start_time to now and only
\* then issues the request; otherwise the request is issued at once and
\* request_count and start_time are not touched by the pacing step.
C14_PacingStep ==
    /\ [](pc = "pacing" =>
            /\ request_count >= 45
            /\ elapsed_time < 60
            /\ wait_time = 60 - elapsed_time + 1)
    /\ [][ /\ (pc # "pacing" /\ pc' = "pacing") =>
                /\ request_count >= 45 /\ elapsed_time' < 60
                /\ request_count' = request_count
                /\ page' \notin requested' \/ pc = "cooldown"
           /\ pc = "pacing" =>
                /\ pc' = "get"
                /\ request_count' = 0 /\ elapsed_time' = 0
                /\ page \in requested'
           /\ (pc \notin {"pacing", "get"} /\ pc' = "get") =>
                /\ ~(request_count >= 45 /\ elapsed_time' < 60)
                /\ request_count' = request_count
                /\ elapsed_time' >= elapsed_time
                /\ wait_time' = 0
                /\ page' \in requested' ]_vars

\* the tenth request in a row was suspended before its first page and then
\* issued it with the counter and the window start reset
C14_Witness ==
    /\ pc = "get"
    /\ runs = MaxRuns
    /\ page = 1
    /\ request_count = 0
    /\ elapsed_time = 0
    /\ requested = {1}

\* C15: the page requests of a run are strictly sequential: at most one
\* page is asked for and not yet finally answered, pages are asked for in
\* the order 1..5, and page p+1 is asked for only after page p got its
\* final outcome, after every throttling retry.
C15_PagesSequential ==
    /\ [](pc \notin {"idle", "filter", "filtered"} =>
            /\ page \in 1..NumPages
            /\ requested \in {1..page, 1..(page - 1)}
            /\ Cardinality(requested) - Len(outcomes) \in {0, 1}
            /\ pc \in {"get", "cooldown"} =>
                   (requested = 1..page /\ Len(outcomes) = page - 1)
            /\ pc = "pacing" => Len(outcomes) = page - 1
            /\ pc \in {"page_sleep", "done"} =>
                   (requested = 1..page /\ Len(outcomes) = page))
    /\ [][page' # page =>
            \/ page' = page + 1 /\ Len(outcomes) = page /\ pc = "page_sleep"
            \/ page' = 1 /\ pc = "done" ]_vars

\* page 3 is being asked for after an earlier page was throttled, retried
\* and finally answered
C15_Witness ==
    /\ pc = "get"
    /\ page = 3
    /\ retries >= 1
    /\ depth = 0
    /\ requested = {1, 2, 3}
    /\ Len(outcomes) = 2

\* C18: with requests served one after another, whatever time passes,
\* request_count never exceeds the budget threshold 45.
C18_CountWithinBudget == request_count <= 45

\* a request is being served by get_all_cryptos
Fetching == pc \in {"pacing", "get", "cooldown", "page_sleep"}

\* C11: under fair scheduling, when every page request meets an outcome
\* other than 429 in the end, get_all_cryptos completes with all 5 pages
\* asked for; every pacing suspension and every cooldown has a finite
\* length and ends.
C11_FetchCompletes ==
    /\ [](pc = "pacing" => wait_time \in 1..(Window + Margin))
    /\ [](pc = "cooldown" => wait_time = Cooldown)
    /\ (pc = "pacing" ~> pc = "get")
    /\ (pc = "cooldown" ~> pc \in {"pacing", "get"})
    /\ (Fetching ~> (/\ pc = "done"
                     /\ requested = 1..NumPages
                     /\ Len(outcomes) = NumPages))

\* a request that was suspended by the pacing step and throttled twice on
\* one page has completed with all five pages asked for
C11_Witness ==
    /\ pc = "done"
    /\ runs = MaxRuns
    /\ retries = MaxRetries
    /\ request_count < NumPages + MaxRetries
    /\ requested = 1..NumPages
    /\ Len(outcomes) = NumPages

\* C19: when two analyze requests run concurrently on the one analyzer,
\* under every interleaving the reply of each is the one its own criteria
\* and the upstream answers to its own page requests determine; the shared
\* request_count and start_time and the other run change nothing of it.
C19_RunsIndependent ==
    \A r \in RunIds :
        pc[r] = "done" =>
            /\ params[r] = ConcParams(r)
            /\ response[r] = AnalyzeReply(Delivered(outcomes[r]), params[r])

\* both runs were suspended by the pacing step of the shared limiter and
\* have finished, each with the entries of its own pages
C19_Witness ==
    /\ pc[1] = "done" /\ pc[2] = "done"
    /\ request_count < 2 * NumPages
    /\ Delivered(outcomes[1]) = <<RecA, RecB>>
    /\ Delivered(outcomes[2]) = <<RecB2, RecC>>
    /\ response[1].kind = "ok" /\ response[2].kind = "ok"
    /\ Ids(response[1].data) = <<JStr("a"), JStr("b")>>
    /\ Ids(response[2].data) = <<JStr("b")>>
    /\ response[2].data[1] # response[1].data[2]

===========================================================================
